---- MODULE Spec2Model ----
(***************************************************************************)
(* Query context resolution and pagination of the DuckDB GUI (src/main.py):*)
(* the statement splitting and USE handling of DuckDBGUI.execute_query,    *)
(* the table-reference rewriting and the paginated execution of            *)
(* QueryWorker, the result/error slots of DuckDBGUI and the connection     *)
(* registry.  SQL text is a sequence of one-character strings, so that     *)
(* splitting, trimming, prefix tests and the regular-expression rewriting  *)
(* are computed as the Python code computes them.                          *)
(***************************************************************************)
EXTENDS Integers, Sequences, FiniteSets, TLC

(***************************************************************************)
(* Characters and the Python string operations the code uses.              *)
(***************************************************************************)
Whitespace == {" ", "\t", "\n", "\r"}

LowerLetters ==
  <<"a","b","c","d","e","f","g","h","i","j","k","l","m",
    "n","o","p","q","r","s","t","u","v","w","x","y","z">>

UpperLetters ==
  <<"A","B","C","D","E","F","G","H","I","J","K","L","M",
    "N","O","P","Q","R","S","T","U","V","W","X","Y","Z">>

DigitChars == <<"0","1","2","3","4","5","6","7","8","9">>

Range(s) == {s[i] : i \in DOMAIN s}

Letters == Range(LowerLetters) \cup Range(UpperLetters)

\* [a-zA-Z_] : the first character of a table reference
IdentStart == Letters \cup {"_"}

\* [a-zA-Z0-9_.] : the following characters of a table reference
IdentChar == Letters \cup Range(DigitChars) \cup {"_", "."}

\* \w : what the word boundary \b looks at
WordChar == Letters \cup Range(DigitChars) \cup {"_"}

UpperOf ==
  [c \in Range(LowerLetters) |->
     UpperLetters[CHOOSE i \in DOMAIN LowerLetters : LowerLetters[i] = c]]

\* str.upper()
upper(s) == [i \in DOMAIN s |-> IF s[i] \in DOMAIN UpperOf THEN UpperOf[s[i]] ELSE s[i]]

SetMin(S) == CHOOSE x \in S : \A y \in S : x <= y

SetMax(S) == CHOOSE x \in S : \A y \in S : x >= y

\* str.strip()
strip(s) ==
  LET keep == {i \in DOMAIN s : s[i] \notin Whitespace}
  IN  IF keep = {} THEN <<>> ELSE SubSeq(s, SetMin(keep), SetMax(keep))

\* str.rstrip()
rstrip(s) ==
  LET keep == {i \in DOMAIN s : s[i] \notin Whitespace}
  IN  IF keep = {} THEN <<>> ELSE SubSeq(s, 1, SetMax(keep))

\* str.rstrip(c): every trailing c is removed
rstrip_char(s, c) ==
  LET keep == {i \in DOMAIN s : s[i] /= c}
  IN  IF keep = {} THEN <<>> ELSE SubSeq(s, 1, SetMax(keep))

\* str.startswith(p)
startswith(s, p) == Len(p) <= Len(s) /\ SubSeq(s, 1, Len(p)) = p

\* s[n:]
from_index(s, n) == SubSeq(s, n + 1, Len(s))

\* p in s
contains(s, p) ==
  \E i \in 1..(Len(s) - Len(p) + 1) : SubSeq(s, i, i + Len(p) - 1) = p

\* s.count(c)
count_char(s, c) == Cardinality({i \in DOMAIN s : s[i] = c})

\* s.split(c)
RECURSIVE split(_, _)
split(s, c) ==
  LET at == {i \in DOMAIN s : s[i] = c}
  IN  IF at = {} THEN <<s>>
      ELSE <<SubSeq(s, 1, SetMin(at) - 1)>> \o split(from_index(s, SetMin(at)), c)

\* sep.join(parts)
RECURSIVE join(_, _)
join(sep, parts) ==
  IF parts = <<>> THEN <<>>
  ELSE IF Len(parts) = 1 THEN parts[1]
  ELSE parts[1] \o sep \o join(sep, Tail(parts))

\* str(n) of an integer
RECURSIVE str_nat(_)
str_nat(n) ==
  IF n < 10 THEN <<DigitChars[n + 1]>>
  ELSE str_nat(n \div 10) \o <<DigitChars[(n % 10) + 1]>>

str_int(n) == IF n < 0 THEN <<"-">> \o str_nat(0 - n) ELSE str_nat(n)

(***************************************************************************)
(* Text constants of the source.                                           *)
(***************************************************************************)
\* 'local': the default connection and the default database
local == <<"l","o","c","a","l">>

\* 'main': the fallback database of a connection
main_db == <<"m","a","i","n">>

\* 'USE '
USE_SP == <<"U","S","E"," ">>

kw_SELECT == <<"S","E","L","E","C","T">>

kw_WITH == <<"W","I","T","H">>

kw_LIMIT == <<"L","I","M","I","T">>

kw_FROM == <<"F","R","O","M">>

kw_JOIN == <<"J","O","I","N">>

kw_INTO == <<"I","N","T","O">>

kw_UPDATE == <<"U","P","D","A","T","E">>

\* the keywords of the four patterns, in the order the code applies them
patterns == <<kw_FROM, kw_JOIN, kw_INTO, kw_UPDATE>>

count_prefix == <<"S","E","L","E","C","T"," ","C","O","U","N","T","(","*",")"," ","F","R","O","M"," ","(">>

count_suffix == <<")"," ","A","S"," ","c","o","u","n","t","_","s","u","b","q","u","e","r","y">>

wrap_prefix == <<"S","E","L","E","C","T"," ","*"," ","F","R","O","M"," ","(">>

wrap_suffix == <<")"," ","A","S"," ","p","a","g","i","n","a","t","e","d","_","s","u","b","q","u","e","r","y"," ","L","I","M","I","T"," ">>

limit_clause == <<" ","L","I","M","I","T"," ">>

offset_clause == <<" ","O","F","F","S","E","T"," ">>

(***************************************************************************)
(* QueryWorker.preprocess_query: the USE branch and the rewriting of table *)
(* references after FROM, JOIN, INTO and UPDATE.                           *)
(***************************************************************************)
\* the last index of the run of characters of `set` that starts at `from`
\* (from - 1 when the run is empty)
run_end(q, from, set) ==
  LET bad == {j \in from..Len(q) : q[j] \notin set}
  IN  IF bad = {} THEN Len(q) ELSE SetMin(bad) - 1

no_match == [start |-> 0, end |-> 0, table_ref |-> <<>>, suffix |-> <<>>]

\* one attempt of  \bKW\s+([a-zA-Z_][a-zA-Z0-9_.]+)(\s|$|;|,|\))  at index i,
\* re.IGNORECASE.  The quantifiers are greedy and the character classes of
\* consecutive parts are disjoint, so the only candidate is the longest run.
match_at(kw, q, i) ==
  LET n      == Len(q)
      kw_end == i + Len(kw) - 1
  IN  IF ~( (i = 1 \/ q[i - 1] \notin WordChar)
            /\ kw_end <= n
            /\ upper(SubSeq(q, i, kw_end)) = kw )
      THEN no_match
      ELSE LET ws_end == run_end(q, kw_end + 1, Whitespace)
           IN  IF ws_end = kw_end \/ ws_end = n THEN no_match
               ELSE IF q[ws_end + 1] \notin IdentStart THEN no_match
               ELSE LET ref_start == ws_end + 1
                        ref_end   == run_end(q, ref_start + 1, IdentChar)
                    IN  IF ref_end = ref_start THEN no_match
                        ELSE IF ref_end = n
                        THEN [start |-> i, end |-> n,
                              table_ref |-> SubSeq(q, ref_start, ref_end),
                              suffix |-> <<>>]
                        ELSE IF q[ref_end + 1] \in Whitespace \cup {";", ",", ")"}
                        THEN [start |-> i, end |-> ref_end + 1,
                              table_ref |-> SubSeq(q, ref_start, ref_end),
                              suffix |-> <<q[ref_end + 1]>>]
                        ELSE no_match

\* re.finditer: the non-overlapping matches, left to right
RECURSIVE finditer(_, _, _)
finditer(kw, q, pos) ==
  IF pos > Len(q) THEN <<>>
  ELSE LET m == match_at(kw, q, pos)
       IN  IF m.start = 0 THEN finditer(kw, q, pos + 1)
           ELSE <<m>> \o finditer(kw, q, m.end + 1)

\* f"{self.current_connection}.{self.current_database}" or the database alone
table_prefix(current_database, current_connection) ==
  IF current_connection /= <<>> /\ current_connection /= local
  THEN current_connection \o <<".">> \o current_database
  ELSE current_database

\* new_table_ref prefixing a reference of two dots or more as well
new_table_ref_requalifying(table_ref, current_database, current_connection) ==
  IF current_connection /= local /\ split(table_ref, ".")[1] /= local
  THEN table_prefix(current_database, current_connection) \o <<".">> \o table_ref
  ELSE table_ref

\* new_table_ref prefixing every one-dot reference that is not local's
new_table_ref_prefixing_own(table_ref, current_database, current_connection) ==
  IF count_char(table_ref, ".") = 0
  THEN IF current_connection /= local
       THEN table_prefix(current_database, current_connection) \o <<".">> \o table_ref
       ELSE table_ref
  ELSE IF count_char(table_ref, ".") = 1
  THEN IF split(table_ref, ".")[1] = local THEN table_ref
       ELSE IF current_connection /= local
       THEN current_connection \o <<".">> \o table_ref
       ELSE table_ref
  ELSE table_ref

\* new_table_ref prefixing a bare name with the database on the local connection
new_table_ref_local_prefixed(table_ref, current_database, current_connection) ==
  IF count_char(table_ref, ".") = 0
  THEN table_prefix(current_database, current_connection) \o <<".">> \o table_ref
  ELSE table_ref

\* the reference that replaces a matched table_ref
new_table_ref(table_ref, current_database, current_connection) ==
  IF count_char(table_ref, ".") = 0
  THEN IF current_connection /= local
       THEN table_prefix(current_database, current_connection) \o <<".">> \o table_ref
       ELSE table_ref
  ELSE IF count_char(table_ref, ".") = 1
  THEN IF split(table_ref, ".")[1] = local THEN table_ref
       ELSE IF current_connection /= local
       THEN IF ~startswith(table_ref, current_connection \o <<".">>)
            THEN current_connection \o <<".">> \o table_ref
            ELSE table_ref
       ELSE table_ref
  ELSE table_ref

\* f"{keyword} {new_table_ref}{suffix}"
replacement(kw, m, current_database, current_connection) ==
  kw \o <<" ">> \o new_table_ref(m.table_ref, current_database, current_connection)
     \o m.suffix

\* for match in reversed(list(matches)): query = query[:start] + replacement + query[end:]
RECURSIVE replace_matches(_, _, _, _, _)
replace_matches(q, kw, matches, current_database, current_connection) ==
  IF matches = <<>> THEN q
  ELSE LET m == matches[Len(matches)]
       IN  replace_matches(
             SubSeq(q, 1, m.start - 1)
               \o replacement(kw, m, current_database, current_connection)
               \o from_index(q, m.end),
             kw, SubSeq(matches, 1, Len(matches) - 1),
             current_database, current_connection)

\* for pattern, keyword in patterns: each pattern scans the text the previous left
RECURSIVE apply_patterns(_, _, _, _)
apply_patterns(q, k, current_database, current_connection) ==
  IF k > Len(patterns) THEN q
  ELSE apply_patterns(
         replace_matches(q, patterns[k], finditer(patterns[k], q, 1),
                         current_database, current_connection),
         k + 1, current_database, current_connection)

\* the database name of a USE statement: the text after the keyword, cut at the
\* first ';', newline or carriage return, trimmed
use_db_name(query) ==
  LET use_part == strip(from_index(query, 4))
      stops    == {i \in DOMAIN use_part : use_part[i] \in {";", "\n", "\r"}}
      end_pos  == IF stops = {} THEN Len(use_part) ELSE SetMin(stops) - 1
  IN  strip(SubSeq(use_part, 1, end_pos))

\* preprocess_query: raises on a USE statement, otherwise returns the text with
\* its table references rewritten when a non-local database is current
preprocess_query(query, current_database, current_connection) ==
  LET q == strip(query)
  IN  IF startswith(upper(q), USE_SP)
      THEN [raised |-> TRUE, db_name |-> use_db_name(q), query |-> q]
      ELSE IF current_database /= <<>> /\ current_database /= local
      THEN [raised |-> FALSE, db_name |-> <<>>,
            query |-> apply_patterns(q, 1, current_database, current_connection)]
      ELSE [raised |-> FALSE, db_name |-> <<>>, query |-> q]

(***************************************************************************)
(* QueryWorker.run: the queries it builds.                                 *)
(***************************************************************************)
\* query_upper.startswith('SELECT') or query_upper.startswith('WITH')
is_select(processed_query) ==
  LET query_upper == upper(strip(processed_query))
  IN  startswith(query_upper, kw_SELECT) \/ startswith(query_upper, kw_WITH)

\* processed_query.rstrip().rstrip(';')
clean_query(processed_query) == rstrip_char(rstrip(processed_query), ";")

count_query(processed_query) ==
  count_prefix \o clean_query(processed_query) \o count_suffix

\* paginated_query appending the clauses whether or not the statement has a LIMIT
paginated_query_appending(processed_query, page_size, page_number) ==
  clean_query(processed_query) \o limit_clause \o str_int(page_size)
    \o offset_clause \o str_int(page_number * page_size)

\* paginated_query with the page number taken for the offset
paginated_query_offset_by_page(processed_query, page_size, page_number) ==
  LET clean == clean_query(processed_query)
  IN  IF contains(upper(clean), kw_LIMIT)
      THEN wrap_prefix \o clean \o wrap_suffix \o str_int(page_size)
             \o offset_clause \o str_int(page_number)
      ELSE clean \o limit_clause \o str_int(page_size)
             \o offset_clause \o str_int(page_number)

paginated_query(processed_query, page_size, page_number) ==
  LET offset == page_number * page_size
      clean  == clean_query(processed_query)
  IN  IF contains(upper(clean), kw_LIMIT)
      THEN wrap_prefix \o clean \o wrap_suffix \o str_int(page_size)
             \o offset_clause \o str_int(offset)
      ELSE clean \o limit_clause \o str_int(page_size)
             \o offset_clause \o str_int(offset)

(***************************************************************************)
(* The execution engine (DuckDB, external): connection.execute(sql).       *)
(* A statement of the user returns the rows 1..n of its unpaginated        *)
(* result; LIMIT/OFFSET clauses and the two wrappers the worker builds are *)
(* evaluated on the text.  Any call may also fail.                         *)
(***************************************************************************)
\* the index where the trailing run of digits of s starts (Len(s)+1 when none)
digits_start(s) ==
  LET bad == {i \in DOMAIN s : s[i] \notin Range(DigitChars)}
  IN  IF bad = {} THEN 1 ELSE SetMax(bad) + 1

RECURSIVE int_of(_)
int_of(ds) ==
  IF ds = <<>> THEN 0
  ELSE 10 * int_of(SubSeq(ds, 1, Len(ds) - 1))
         + (CHOOSE d \in 0..9 : DigitChars[d + 1] = ds[Len(ds)])

endswith(s, p) == Len(p) <= Len(s) /\ SubSeq(s, Len(s) - Len(p) + 1, Len(s)) = p

\* s ends with clause followed by a number: [found, rest, n]
trailing_clause(s, clause) ==
  LET d    == digits_start(s)
      head == SubSeq(s, 1, d - 1)
  IN  IF d <= Len(s) /\ endswith(head, clause)
      THEN [found |-> TRUE, rest |-> SubSeq(head, 1, Len(head) - Len(clause)),
            n |-> int_of(from_index(s, d - 1))]
      ELSE [found |-> FALSE, rest |-> s, n |-> 0]

\* rows[offset : offset + limit]
slice(rows, limit, offset) ==
  IF offset >= Len(rows) THEN <<>>
  ELSE SubSeq(rows, offset + 1, IF offset + limit > Len(rows) THEN Len(rows) ELSE offset + limit)

subquery_alias == <<")"," ","A","S"," ","p","a","g","i","n","a","t","e","d","_","s","u","b","q","u","e","r","y">>

\* the rows a statement returns when the unpaginated user statement returns 1..n
RECURSIVE engine_rows(_, _)
engine_rows(sql, n) ==
  LET off == trailing_clause(sql, offset_clause)
      lim == trailing_clause(off.rest, limit_clause)
  IN  IF lim.found
      THEN slice(engine_rows(lim.rest, n), lim.n, off.n)
      ELSE IF startswith(sql, wrap_prefix) /\ endswith(sql, subquery_alias)
      THEN engine_rows(SubSeq(sql, Len(wrap_prefix) + 1, Len(sql) - Len(subquery_alias)), n)
      ELSE [i \in 1..n |-> i]

\* fetchone()[0] of the count query
engine_count(sql, n) ==
  Len(engine_rows(SubSeq(sql, Len(count_prefix) + 1, Len(sql) - Len(count_suffix)), n))

\* the schemas an attached connection exposes (information_schema.schemata)
c1 == <<"c","1">>

c2 == <<"c","2">>

s1 == <<"s","1">>

s2 == <<"s","2">>

schemata(conn_name) ==
  IF conn_name = c1 THEN <<s1>>
  ELSE IF conn_name = c2 THEN <<s2, s1>>
  ELSE <<>>

\* the text every context-switch report carries
switched_phrase == "Database context switched to"

\* messages of a failing execute; the engine quotes identifiers of the statement
\* in its messages, so a message can carry any text
engine_errors ==
  { <<"Parser Error: syntax error at end of input">>,
    <<"Catalog Error: Table with name ", switched_phrase, " ", "'">> \o s2
       \o <<"'", " does not exist!">> }

(***************************************************************************)
(* State.                                                                  *)
(***************************************************************************)
VARIABLES
  current_database,    \* DuckDBGUI.current_database
  current_connection,  \* DuckDBGUI.current_connection
  connections,         \* DatabaseConnectionManager.connections, in insertion order
  attached,            \* the names attached to the engine (ATTACH ... AS name)
  workers,             \* the QueryWorker threads whose signal the GUI has not handled yet
  query_worker,        \* DuckDBGUI.query_worker: the attributes of the latest worker
  signals,             \* finished/error signals emitted and not yet delivered to the GUI
  table_rows,          \* engine: the number of rows the user's statements return
  single_results_table,  \* DuckDBGUI.single_results_table: the ResultsTableWidget
  query_tabs,            \* DuckDBGUI.query_tabs.currentIndex()
  query_results_tables   \* DuckDBGUI.query_results_tables: tab index -> stored results

vars ==
  <<current_database, current_connection, connections, attached, workers,
    query_worker, signals, table_rows, single_results_table, query_tabs,
    query_results_tables>>

\* the results view and the query tabs
view_vars == <<single_results_table, query_tabs, query_results_tables>>

gui_vars ==
  <<current_database, current_connection, connections, attached, query_worker, view_vars>>

(***************************************************************************)
(* Bounds of the model.                                                    *)
(***************************************************************************)
\* the most statements in a submitted buffer
MaxStmts == 2

\* the most workers alive at a time
MaxWorkers == 1

\* the most rows an unpaginated statement returns
MaxRows == 3

\* the largest page size a worker is constructed with directly
MaxPageSize == 2

\* the last page a sequence of runs asks for
MaxPage == 2

\* the most pieces between the ';' of a buffer of the splitter
MaxPieces == 3

\* execute_query and execute_selected_query dispatch page 0 with this page size
default_page_size == 1000

(***************************************************************************)
(* QueryWorker: __init__ and the steps of run.  Each execute call is one   *)
(* step of the worker thread; the GUI thread runs between them.            *)
(***************************************************************************)
\* QueryWorker.__init__; executed, buffer and tab are history: the execute calls
\* made so far, the text the GUI was given and the query tab of the request
QueryWorker(query, database, connection, page_size, page_number) ==
  [query |-> query, current_database |-> database, current_connection |-> connection,
   page_size |-> page_size, page_number |-> page_number,
   pc |-> "start", processed_query |-> <<>>, total_count |-> 0,
   executed |-> <<>>, buffer |-> <<>>, tab |-> 0]

\* a slot without a thread
no_worker == [QueryWorker(<<>>, local, local, 0, 0) EXCEPT !.pc = "none"]

\* self.query_worker = None
no_query_worker == [exists |-> FALSE, page_number |-> 0, page_size |-> 0]

\* self.finished.emit((result, columns), self.query, total_count); worker,
\* page_number, page_size and tab are history: the emitter and its request
finished_signal(w, result, total_count) ==
  [kind |-> "finished", worker |-> w, result |-> result, query |-> workers[w].query,
   total_count |-> total_count, message |-> <<>>, from_engine |-> FALSE,
   page_number |-> workers[w].page_number, page_size |-> workers[w].page_size,
   tab |-> workers[w].tab]

\* self.error.emit(str(e)); from_engine is history: an execute call raised it
error_signal(w, message, from_engine) ==
  [kind |-> "error", worker |-> w, result |-> <<>>, query |-> <<>>,
   total_count |-> 0, message |-> message, from_engine |-> from_engine,
   page_number |-> workers[w].page_number, page_size |-> workers[w].page_size,
   tab |-> workers[w].tab]

\* raise Exception(f"Database context switched to '{db_name}'. Please run your next query.")
context_switch_message(db_name) ==
  <<switched_phrase, " ", "'">> \o db_name \o <<"'", ". Please run your next query.">>

\* the record of one execute call
call(sql, ok) == [sql |-> sql, ok |-> ok]

\* WorkerStart counting the rows of every statement, whatever it is
WorkerStart_always_counts(w) ==
  /\ workers[w].pc = "start"
  /\ LET me == workers[w]
         p  == preprocess_query(me.query, me.current_database, me.current_connection)
     IN  IF p.raised
         THEN /\ workers' = [workers EXCEPT ![w].pc = "done",
                                            ![w].current_database = p.db_name]
              /\ signals' = Append(signals,
                                   error_signal(w, context_switch_message(p.db_name), FALSE))
         ELSE /\ workers' = [workers EXCEPT ![w].processed_query = p.query,
                                            ![w].pc = "count"]
              /\ UNCHANGED signals
  /\ UNCHANGED <<gui_vars, table_rows>>

\* WorkerStart reading the context of the GUI at the time it runs
WorkerStart_live_context(w) ==
  /\ workers[w].pc = "start"
  /\ LET me == workers[w]
         p  == preprocess_query(me.query, current_database, current_connection)
     IN  IF p.raised
         THEN /\ workers' = [workers EXCEPT ![w].pc = "done",
                                            ![w].current_database = p.db_name]
              /\ signals' = Append(signals,
                                   error_signal(w, context_switch_message(p.db_name), FALSE))
         ELSE /\ workers' = [workers EXCEPT
                   ![w].processed_query = p.query,
                   ![w].pc = IF is_select(p.query) /\ me.page_size > 0
                             THEN "count" ELSE "plain"]
              /\ UNCHANGED signals
  /\ UNCHANGED <<gui_vars, table_rows>>

\* run, up to the first execute: preprocess_query and the choice of the path
WorkerStart(w) ==
  /\ workers[w].pc = "start"
  /\ LET me == workers[w]
         p  == preprocess_query(me.query, me.current_database, me.current_connection)
     IN  IF p.raised
         THEN /\ workers' = [workers EXCEPT ![w].pc = "done",
                                            ![w].current_database = p.db_name]
              /\ signals' = Append(signals,
                                   error_signal(w, context_switch_message(p.db_name), FALSE))
         ELSE /\ workers' = [workers EXCEPT
                   ![w].processed_query = p.query,
                   ![w].pc = IF is_select(p.query) /\ me.page_size > 0
                             THEN "count" ELSE "plain"]
              /\ UNCHANGED signals
  /\ UNCHANGED <<gui_vars, table_rows>>

\* WorkerCount going on to the slice query whether or not the count succeeded
WorkerCount_always_slices(w) ==
  /\ workers[w].pc = "count"
  /\ LET sql == count_query(workers[w].processed_query)
     IN  \/ workers' = [workers EXCEPT
                ![w].pc = "slice",
                ![w].total_count = engine_count(sql, table_rows),
                ![w].executed = Append(@, call(sql, TRUE))]
         \/ workers' = [workers EXCEPT
                ![w].pc = "slice",
                ![w].total_count = -1,
                ![w].executed = Append(@, call(sql, FALSE))]
  /\ UNCHANGED <<gui_vars, signals, table_rows>>

\* total_count = self.connection.execute(count_query).fetchone()[0], or the except branch
WorkerCount(w) ==
  /\ workers[w].pc = "count"
  /\ LET sql == count_query(workers[w].processed_query)
     IN  \/ workers' = [workers EXCEPT
                ![w].pc = "slice",
                ![w].total_count = engine_count(sql, table_rows),
                ![w].executed = Append(@, call(sql, TRUE))]
         \/ workers' = [workers EXCEPT
                ![w].pc = "fallback",
                ![w].total_count = -1,
                ![w].executed = Append(@, call(sql, FALSE))]
  /\ UNCHANGED <<gui_vars, signals, table_rows>>

\* execute_and_emit ending the run without a signal when the execute raises
execute_and_emit_silent_failure(w, sql, total_count_of) ==
  \/ LET result == engine_rows(sql, table_rows)
     IN  /\ workers' = [workers EXCEPT ![w].pc = "done",
                                       ![w].total_count = total_count_of[Len(result)],
                                       ![w].executed = Append(@, call(sql, TRUE))]
         /\ signals' = Append(signals, finished_signal(w, result, total_count_of[Len(result)]))
  \/ /\ workers' = [workers EXCEPT ![w].pc = "done",
                                   ![w].executed = Append(@, call(sql, FALSE))]
     /\ UNCHANGED signals

\* one execute whose result is emitted with total_count_of[len(result)], or whose
\* exception reaches the outer except
execute_and_emit(w, sql, total_count_of) ==
  \/ LET result == engine_rows(sql, table_rows)
     IN  /\ workers' = [workers EXCEPT ![w].pc = "done",
                                       ![w].total_count = total_count_of[Len(result)],
                                       ![w].executed = Append(@, call(sql, TRUE))]
         /\ signals' = Append(signals, finished_signal(w, result, total_count_of[Len(result)]))
  \/ \E message \in engine_errors :
         /\ workers' = [workers EXCEPT ![w].pc = "done",
                                       ![w].executed = Append(@, call(sql, FALSE))]
         /\ signals' = Append(signals, error_signal(w, message, TRUE))

\* WorkerFallback reporting the number of rows as total_count
WorkerFallback_counting_rows(w) ==
  /\ workers[w].pc = "fallback"
  /\ execute_and_emit(w, workers[w].processed_query, [k \in 0..table_rows |-> k])
  /\ UNCHANGED <<gui_vars, table_rows>>

\* the count failed: result = self.connection.execute(processed_query).fetchall()
WorkerFallback(w) ==
  /\ workers[w].pc = "fallback"
  /\ execute_and_emit(w, workers[w].processed_query, [k \in 0..table_rows |-> -1])
  /\ UNCHANGED <<gui_vars, table_rows>>

\* result = self.connection.execute(paginated_query).fetchall()
WorkerSlice(w) ==
  /\ workers[w].pc = "slice"
  /\ execute_and_emit(w,
       paginated_query(workers[w].processed_query, workers[w].page_size,
                       workers[w].page_number),
       [k \in 0..table_rows |-> workers[w].total_count])
  /\ UNCHANGED <<gui_vars, table_rows>>

\* not a read query, or pagination disabled: total_count = len(result) if result else 0
WorkerPlain(w) ==
  /\ workers[w].pc = "plain"
  /\ execute_and_emit(w, workers[w].processed_query, [k \in 0..table_rows |-> k])
  /\ UNCHANGED <<gui_vars, table_rows>>

(***************************************************************************)
(* DatabaseConnectionManager.  The manager's state is the pair of the      *)
(* registry and the engine's attachments.  ATTACH may fail; DETACH of an   *)
(* attached name succeeds and DETACH of any other name raises.             *)
(***************************************************************************)
manager == [connections |-> connections, attached |-> attached]

registered(m, name) == \E i \in DOMAIN m.connections : m.connections[i].name = name

position(m, name) == CHOOSE i \in DOMAIN m.connections : m.connections[i].name = name

entry(m, name) == m.connections[position(m, name)]

\* DatabaseConnection(...): is_connected = False
DatabaseConnection(name, db_type, database) ==
  [name |-> name, db_type |-> db_type, database |-> database, is_connected |-> FALSE]

\* get_connected_databases: the connected names in the order of the registry
get_connected_databases(m) ==
  LET connected == SelectSeq(m.connections, LAMBDA c : c.is_connected)
  IN  [i \in DOMAIN connected |-> connected[i].name]

\* disconnect_database: a DETACH that raises leaves the flag as it was
manager_disconnect_database(m, name) ==
  IF registered(m, name) /\ name \in m.attached
  THEN [connections |-> [m.connections EXCEPT ![position(m, name)].is_connected = FALSE],
        attached    |-> m.attached \ {name}]
  ELSE m

\* remove_connection
remove_connection(m, name) ==
  IF ~registered(m, name) THEN m
  ELSE LET d == IF entry(m, name).is_connected
                THEN manager_disconnect_database(m, name) ELSE m
       IN  [d EXCEPT !.connections = SelectSeq(d.connections, LAMBDA c : c.name /= name)]

\* add_connection(name, ...): self.connections[name] = connection
add_connection(m, name, db_type, database) ==
  IF registered(m, name)
  THEN [m EXCEPT !.connections[position(m, name)] = DatabaseConnection(name, db_type, database)]
  ELSE [m EXCEPT !.connections = Append(@, DatabaseConnection(name, db_type, database))]

\* manager_connect_database setting is_connected before the ATTACH is tried
manager_connect_database_marking_first(m, name, attach_ok) ==
  IF ~registered(m, name) THEN [manager |-> m, returned |-> FALSE]
  ELSE IF entry(m, name).db_type \in {"mysql", "mariadb"}
          /\ attach_ok /\ name \notin m.attached
  THEN [manager  |-> [connections |-> [m.connections EXCEPT ![position(m, name)].is_connected = TRUE],
                      attached    |-> m.attached \cup {name}],
        returned |-> TRUE]
  ELSE [manager  |-> [m EXCEPT !.connections[position(m, name)].is_connected = TRUE],
        returned |-> FALSE]

\* connect_database: [manager, returned]
manager_connect_database(m, name, attach_ok) ==
  IF ~registered(m, name) THEN [manager |-> m, returned |-> FALSE]
  ELSE IF entry(m, name).db_type \in {"mysql", "mariadb"}
          /\ attach_ok /\ name \notin m.attached
  THEN [manager  |-> [connections |-> [m.connections EXCEPT ![position(m, name)].is_connected = TRUE],
                      attached    |-> m.attached \cup {name}],
        returned |-> TRUE]
  ELSE [manager |-> m, returned |-> FALSE]

(***************************************************************************)
(* DuckDBGUI: connect, disconnect, edit and delete of a connection.        *)
(***************************************************************************)
\* the names a connection is given in the dialog
connection_names == {c1, c2}

\* the database field of the dialog: empty, or a schema
database_fields == {<<>>}

set_manager(m) ==
  /\ connections' = m.connections
  /\ attached' = m.attached

\* connect_database, offered by the menu for a connection that is not connected
connect_database(connection_name) ==
  /\ registered(manager, connection_name)
  /\ ~entry(manager, connection_name).is_connected
  /\ \E attach_ok \in BOOLEAN, probe_ok \in BOOLEAN :
       LET r == manager_connect_database(manager, connection_name, attach_ok)
           conn_info == entry(manager, connection_name)
       IN  /\ set_manager(r.manager)
           /\ IF r.returned
              THEN /\ current_connection' = connection_name
                   /\ current_database' =
                        IF conn_info.database /= <<>> THEN conn_info.database
                        ELSE IF probe_ok /\ schemata(connection_name) /= <<>>
                        THEN schemata(connection_name)[1]
                        ELSE main_db
              ELSE UNCHANGED <<current_database, current_connection>>
  /\ UNCHANGED <<workers, query_worker, signals, table_rows, view_vars>>

\* context_after_disconnect resetting the connection and keeping the schema
context_after_disconnect_keeping_schema(connection_name) ==
  IF current_connection = connection_name
  THEN [current_connection |-> local, current_database |-> current_database]
  ELSE [current_connection |-> current_connection, current_database |-> current_database]

\* the context after DuckDBGUI.disconnect_database
context_after_disconnect(connection_name) ==
  IF current_connection = connection_name
  THEN [current_connection |-> local, current_database |-> local]
  ELSE [current_connection |-> current_connection, current_database |-> current_database]

\* disconnect_database, offered by the menu for a connected connection
disconnect_database(connection_name) ==
  /\ registered(manager, connection_name)
  /\ entry(manager, connection_name).is_connected
  /\ set_manager(manager_disconnect_database(manager, connection_name))
  /\ current_connection' = context_after_disconnect(connection_name).current_connection
  /\ current_database' = context_after_disconnect(connection_name).current_database
  /\ UNCHANGED <<workers, query_worker, signals, table_rows, view_vars>>

\* edit_database_connection with the dialog accepted
edit_database_connection(connection_name, new_name, new_database) ==
  /\ registered(manager, connection_name)
  /\ LET conn == entry(manager, connection_name)
     IN  IF new_name /= connection_name
         THEN IF registered(manager, new_name)
              THEN UNCHANGED <<connections, attached>>
              ELSE set_manager(
                     add_connection(remove_connection(manager, connection_name),
                                    new_name, conn.db_type, new_database))
         ELSE /\ connections' =
                   [connections EXCEPT ![position(manager, connection_name)].database = new_database]
              /\ UNCHANGED attached
  /\ UNCHANGED <<current_database, current_connection, workers, query_worker, signals,
                 table_rows, view_vars>>

\* delete_database_connection with the deletion confirmed
delete_database_connection(connection_name) ==
  /\ registered(manager, connection_name)
  /\ LET conn == entry(manager, connection_name)
         d    == IF conn.is_connected
                 THEN manager_disconnect_database(manager, connection_name)
                 ELSE manager
         ctx  == IF conn.is_connected
                 THEN context_after_disconnect(connection_name)
                 ELSE [current_connection |-> current_connection,
                       current_database |-> current_database]
     IN  /\ set_manager(remove_connection(d, connection_name))
         /\ current_connection' = ctx.current_connection
         /\ current_database' = ctx.current_database
  /\ UNCHANGED <<workers, query_worker, signals, table_rows, view_vars>>

(***************************************************************************)
(* ResultsTableWidget and the results stored for each query tab.           *)
(***************************************************************************)
\* ResultsTableWidget.__init__: self.page_size = 1000
widget_page_size == 1000

\* the columns of a result (connection.description)
result_columns == <<"column">>

\* the request a result answers: history kept with the rows
request_of(sig) ==
  [made |-> TRUE, page_number |-> sig.page_number, page_size |-> sig.page_size,
   tab |-> sig.tab]

\* no rows, no request
no_request == [made |-> FALSE, page_number |-> 0, page_size |-> 0, tab |-> 0]

\* the entry add_new_query_tab stores for a new tab
empty_results ==
  [data |-> <<>>, columns |-> <<>>, total_count |-> 0, current_page |-> 0,
   query |-> <<>>, request |-> no_request]

\* update_pagination_controls: the four buttons, enabled or not
update_pagination_controls(widget) ==
  LET has_pagination == widget.total_count > widget.page_size /\ widget.total_count /= -1
      more == has_pagination
              /\ (widget.current_page + 1) * widget.page_size < widget.total_count
  IN  [widget EXCEPT !.first_btn = has_pagination /\ widget.current_page > 0,
                     !.prev_btn  = has_pagination /\ widget.current_page > 0,
                     !.next_btn  = more,
                     !.last_btn  = more]

\* ResultsTableWidget(): __init__ and setup_ui
ResultsTableWidget ==
  update_pagination_controls(
    [data |-> <<>>, columns |-> <<>>, total_count |-> 0, current_page |-> 0,
     page_size |-> widget_page_size, current_query |-> <<>>, request |-> no_request,
     first_btn |-> FALSE, prev_btn |-> FALSE, next_btn |-> FALSE, last_btn |-> FALSE])

\* display_results(data, columns, total_count, current_page, query)
display_results(widget, results_data) ==
  update_pagination_controls(
    [widget EXCEPT !.data = results_data.data,
                   !.columns = results_data.columns,
                   !.total_count = results_data.total_count,
                   !.current_page = results_data.current_page,
                   !.current_query = results_data.query,
                   !.request = results_data.request])

\* ResultsTableWidget.clear_results
clear_results(widget) ==
  update_pagination_controls(
    [widget EXCEPT !.data = <<>>, !.columns = <<>>, !.total_count = 0,
                   !.current_page = 0, !.current_query = <<>>, !.request = no_request])

\* max_page = (self.total_count + self.page_size - 1) // self.page_size - 1
max_page(widget) == ((widget.total_count + widget.page_size - 1) \div widget.page_size) - 1

\* the view and the tabs after DuckDBGUI.__init__: one query tab, nothing displayed
initial_view ==
  /\ single_results_table = ResultsTableWidget
  /\ query_tabs = 0
  /\ query_results_tables = [t \in {0} |-> empty_results]

(***************************************************************************)
(* DuckDBGUI.execute_query and the dispatch of a worker.                    *)
(***************************************************************************)
\* statements_of keeping the whitespace around each piece
statements_of_untrimmed(query) ==
  SelectSeq(split(query, ";"), LAMBDA stmt : strip(stmt) /= <<>>)

\* [stmt.strip() for stmt in query.split(';') if stmt.strip()]
statements_of(query) ==
  LET pieces == split(query, ";")
  IN  SelectSeq([i \in DOMAIN pieces |-> strip(pieces[i])], LAMBDA stmt : stmt /= <<>>)

\* stmt.upper().startswith('USE ')
is_use_statement(stmt) == startswith(upper(stmt), USE_SP)

\* use_part = stmt[4:].strip(); db_name = use_part.strip()
db_name_of(stmt) == strip(strip(from_index(stmt, 4)))

\* the statements left for the engine
non_use_statements(statements) ==
  SelectSeq(statements, LAMBDA stmt : ~is_use_statement(stmt))

\* self.current_database after the loop over the statements
RECURSIVE database_after(_, _)
database_after(statements, database) ==
  IF statements = <<>> THEN database
  ELSE database_after(Tail(statements),
                      IF is_use_statement(Head(statements))
                      THEN db_name_of(Head(statements)) ELSE database)

\* the slots without a thread
free_slots == {w \in DOMAIN workers : workers[w].pc = "none"}

\* execute_paginated_query: a new worker with the context of this moment
execute_paginated_query(query, page_number, page_size, database, text) ==
  /\ free_slots /= {}
  /\ workers' = [workers EXCEPT ![SetMin(free_slots)] =
                   [QueryWorker(query, database, current_connection, page_size, page_number)
                      EXCEPT !.buffer = text, !.tab = query_tabs]]
  /\ query_worker' = [exists |-> TRUE, page_number |-> page_number, page_size |-> page_size]

\* the statements the buffers of the model are made of
statement_pool ==
  { <<"u","s","e"," ","s","2">>,
    <<"U","S","E","\t","s","1">>,
    <<"S","E","L","E","C","T"," ","*"," ","F","R","O","M"," ","a","b">> }

\* the buffers: up to MaxStmts statements, separated by ';'
buffers ==
  { join(<<";", " ">>, stmts) :
      stmts \in UNION { [1..k -> statement_pool] : k \in 1..MaxStmts } }

\* the pieces the buffers of the splitter are made of: empty, blank, padded,
\* USE with a space, with a tab, and with text on a following line
split_pieces ==
  { <<>>,
    <<" ">>,
    <<"U","S","E"," ","s","1">>,
    <<"u","s","e"," ","s","2","\n","a","b">>,
    <<"U","S","E","\t","s","1">>,
    <<" ","a","b","\n">>,
    <<"S","E","L","E","C","T"," ","1">> }

\* the buffers of the splitter: up to MaxPieces pieces with a ';' between them
split_buffers ==
  { join(<<";">>, pieces) :
      pieces \in UNION { [1..k -> split_pieces] : k \in 1..MaxPieces } }

\* the buffers submitted from the editor while the view is used
view_buffers ==
  { <<"S","E","L","E","C","T"," ","*"," ","F","R","O","M"," ","a","b">>,
    <<"u","s","e"," ","s","2">>,
    <<"S","H","O","W"," ","T","A","B","L","E","S">> }

\* the statements of every buffer of the model, split once
statements_table ==
  [text \in buffers \cup split_buffers \cup view_buffers |-> statements_of(strip(text))]

\* execute_query, for the text of the editor (or of its selection)
execute_query(text) ==
  LET statements == statements_table[text]
      remaining  == non_use_statements(statements)
      database   == database_after(statements, current_database)
  IN  /\ strip(text) /= <<>>
      /\ statements /= <<>>
      /\ current_database' = database
      /\ IF remaining /= <<>>
         THEN execute_paginated_query(join(<<";", " ">>, remaining), 0, default_page_size,
                                      database, text)
         ELSE UNCHANGED <<workers, query_worker>>
      /\ UNCHANGED <<current_connection, connections, attached, signals, table_rows,
                     view_vars>>

(***************************************************************************)
(* DuckDBGUI: the slots of the worker's signals, run by the GUI thread in  *)
(* the order the signals were emitted.  The thread whose signal is handled *)
(* has ended.                                                              *)
(***************************************************************************)
\* on_query_finished: the result is stored for the query tab that is current now,
\* with the page number of the latest worker, and displayed
on_query_finished ==
  /\ signals /= <<>>
  /\ Head(signals).kind = "finished"
  /\ signals' = Tail(signals)
  /\ workers' = [workers EXCEPT ![Head(signals).worker] = no_worker]
  /\ LET sig          == Head(signals)
         current_page == IF query_worker.exists THEN query_worker.page_number ELSE 0
         results_data == [data |-> sig.result, columns |-> result_columns,
                          total_count |-> sig.total_count, current_page |-> current_page,
                          query |-> sig.query, request |-> request_of(sig)]
     IN  IF query_tabs \in DOMAIN query_results_tables
         THEN /\ query_results_tables' =
                   [query_results_tables EXCEPT ![query_tabs] = results_data]
              /\ single_results_table' = display_results(single_results_table, results_data)
         ELSE UNCHANGED <<query_results_tables, single_results_table>>
  /\ UNCHANGED <<current_database, current_connection, connections, attached,
                 query_worker, table_rows, query_tabs>>

\* re.search(r"Database context switched to '([^']+)'", error_msg): the name, or <<>>
switched_name(error_msg) ==
  LET starts == {i \in DOMAIN error_msg :
                   /\ error_msg[i] = switched_phrase
                   /\ i + 3 <= Len(error_msg)
                   /\ error_msg[i + 1] = " "
                   /\ error_msg[i + 2] = "'"
                   /\ error_msg[i + 3] /= "'"
                   /\ \E j \in (i + 4)..Len(error_msg) : error_msg[j] = "'"}
  IN  IF starts = {} THEN <<>>
      ELSE LET i == SetMin(starts)
               j == SetMin({k \in (i + 4)..Len(error_msg) : error_msg[k] = "'"})
           IN  SubSeq(error_msg, i + 3, j - 1)

\* the first connected connection whose probe answers and that exposes new_db,
\* 'local' when none does; the probes of the connections in failing raise
RECURSIVE find_connection(_, _, _)
find_connection(conn_names, new_db, failing) ==
  IF conn_names = <<>> THEN local
  ELSE IF Head(conn_names) \in attached \ failing
          /\ \E k \in DOMAIN schemata(Head(conn_names)) : schemata(Head(conn_names))[k] = new_db
  THEN Head(conn_names)
  ELSE find_connection(Tail(conn_names), new_db, failing)

\* on_query_error
on_query_error ==
  /\ signals /= <<>>
  /\ Head(signals).kind = "error"
  /\ signals' = Tail(signals)
  /\ workers' = [workers EXCEPT ![Head(signals).worker] = no_worker]
  /\ LET error_msg == Head(signals).message
         new_db    == switched_name(error_msg)
     IN  IF (\E i \in DOMAIN error_msg : error_msg[i] = switched_phrase) /\ new_db /= <<>>
         THEN /\ current_database' = new_db
              /\ \E failing \in SUBSET attached :
                   current_connection' =
                     find_connection(get_connected_databases(manager), new_db, failing)
         ELSE UNCHANGED <<current_database, current_connection>>
  /\ UNCHANGED <<connections, attached, query_worker, table_rows, view_vars>>

(***************************************************************************)
(* The application: the GUI thread's operations and the worker threads.    *)
(***************************************************************************)
\* the registries load_connections can find in the settings
initial_registries ==
  { <<DatabaseConnection(c1, "mysql", <<>>)>>,
    <<DatabaseConnection(c1, "mysql", s1), DatabaseConnection(c2, "postgresql", <<>>)>> }

Init ==
  /\ initial_view
  /\ current_database = local
  /\ current_connection = local
  /\ connections \in initial_registries
  /\ attached = {}
  /\ workers = [w \in 1..MaxWorkers |-> no_worker]
  /\ query_worker = no_query_worker
  /\ signals = <<>>
  /\ table_rows = MaxRows

Next ==
  \/ \E text \in buffers : execute_query(text)
  \/ \E name \in connection_names : connect_database(name)
  \/ \E name \in connection_names : disconnect_database(name)
  \/ \E name \in connection_names, new_name \in connection_names,
        new_database \in database_fields :
          edit_database_connection(name, new_name, new_database)
  \/ \E name \in connection_names : delete_database_connection(name)
  \/ \E w \in DOMAIN workers : WorkerStart(w)
  \/ \E w \in DOMAIN workers : WorkerCount(w)
  \/ \E w \in DOMAIN workers : WorkerSlice(w)
  \/ \E w \in DOMAIN workers : WorkerFallback(w)
  \/ \E w \in DOMAIN workers : WorkerPlain(w)
  \/ on_query_finished
  \/ on_query_error

Spec == Init /\ [][Next]_vars

(***************************************************************************)
(* The worker on its own: a QueryWorker is constructed for a query, a      *)
(* context, a page size and page 0, and the pages after it are run one at  *)
(* a time.  The signals stay in the queue: they are the record of the      *)
(* pages.                                                                  *)
(***************************************************************************)
\* the queries the worker is constructed with
run_queries ==
  { <<"S","E","L","E","C","T"," ","*"," ","F","R","O","M"," ","a","b">>,
    <<"S","E","L","E","C","T"," ","*"," ","F","R","O","M"," ","a","b"," ","L","I","M","I","T"," ","2">>,
    <<"s","e","l","e","c","t"," ","*"," ","f","r","o","m"," ","t"," ",";">>,
    <<"S","H","O","W"," ","T","A","B","L","E","S">>,
    <<"U","S","E"," ","s","2">> }

\* the contexts the worker is constructed with: <<current_database, current_connection>>
run_contexts == { <<local, local>>, <<s1, c1>> }

\* ResultsTableWidget.load_page -> execute_paginated_query, for the page after the
\* one worker w has delivered
load_page(w) ==
  /\ workers[w].pc = "done"
  /\ signals /= <<>>
  /\ signals[Len(signals)].kind = "finished"
  /\ workers[w].page_number < MaxPage
  /\ workers' = [workers EXCEPT ![w] =
                   [QueryWorker(@.query, current_database, current_connection,
                                @.page_size, @.page_number + 1)
                      EXCEPT !.buffer = workers[w].buffer]]
  /\ query_worker' = [exists |-> TRUE, page_number |-> workers[w].page_number + 1,
                      page_size |-> workers[w].page_size]
  /\ UNCHANGED <<current_database, current_connection, connections, attached,
                 signals, table_rows, view_vars>>

InitRun ==
  /\ initial_view
  /\ \E ctx \in run_contexts :
       /\ current_database = ctx[1]
       /\ current_connection = ctx[2]
       /\ connections = <<[DatabaseConnection(c1, "mysql", <<>>)
                             EXCEPT !.is_connected = (ctx[2] = c1)]>>
       /\ attached = (IF ctx[2] = c1 THEN {c1} ELSE {})
       /\ \E query \in run_queries, page_size \in 0..MaxPageSize :
            /\ workers = [w \in 1..MaxWorkers |->
                            IF w = 1
                            THEN [QueryWorker(query, ctx[1], ctx[2], page_size, 0)
                                    EXCEPT !.buffer = query]
                            ELSE no_worker]
            /\ query_worker = [exists |-> TRUE, page_number |-> 0, page_size |-> page_size]
  /\ signals = <<>>
  /\ table_rows \in 0..MaxRows

NextRun ==
  \/ \E w \in DOMAIN workers : WorkerStart(w)
  \/ \E w \in DOMAIN workers : WorkerCount(w)
  \/ \E w \in DOMAIN workers : WorkerSlice(w)
  \/ \E w \in DOMAIN workers : WorkerFallback(w)
  \/ \E w \in DOMAIN workers : WorkerPlain(w)
  \/ \E w \in DOMAIN workers : load_page(w)

SpecRun == InitRun /\ [][NextRun]_vars

(***************************************************************************)
(* The qualifier on its own: a QueryWorker with pagination disabled is     *)
(* constructed for a statement and a context; it rewrites the statement    *)
(* and executes it.                                                        *)
(***************************************************************************)
\* what a statement of the pool starts with
qualify_heads == { <<>>, <<"S","E","L","E","C","T"," ","*"," ">>, <<"x">> }

\* the keyword before a table reference, as the user writes it
qualify_keywords == { <<"F","R","O","M">>, <<"f","r","o","m">>, <<"J","o","i","n">>, <<"I","N","T","O">>, <<"u","p","d","a","t","e">> }

\* the whitespace between the keyword and the reference
qualify_gaps == { <<" ">>, <<" ", " ">>, <<"\n">> }

\* the table references: bare (of one character and of two), one dot, two dots
qualify_refs ==
  { <<"t">>, <<"a","b">>, local \o <<".","a","b">>, s1 \o <<".","a","b">>,
    c1 \o <<".","a","b">>, c1 \o <<".">> \o s1 \o <<".","a","b">> }

\* what follows the reference
qualify_tails == { <<>>, <<";">>, <<" ","J","O","I","N"," ","c","d">>, <<",","c","d">> }

\* the statements the qualifier is given
qualify_queries ==
  { head \o kw \o gap \o ref \o tail :
      head \in qualify_heads, kw \in qualify_keywords, gap \in qualify_gaps,
      ref \in qualify_refs, tail \in qualify_tails }

\* the contexts the qualifier is given: <<current_database, current_connection>>
qualify_contexts == { <<local, local>>, <<s1, local>>, <<local, c1>>, <<s1, c1>> }

InitQualify ==
  /\ initial_view
  /\ \E ctx \in qualify_contexts :
       /\ current_database = ctx[1]
       /\ current_connection = ctx[2]
       /\ connections = <<[DatabaseConnection(c1, "mysql", <<>>)
                             EXCEPT !.is_connected = (ctx[2] = c1)]>>
       /\ attached = (IF ctx[2] = c1 THEN {c1} ELSE {})
       /\ \E query \in qualify_queries :
            workers = [w \in 1..MaxWorkers |->
                         IF w = 1
                         THEN [QueryWorker(query, ctx[1], ctx[2], 0, 0)
                                 EXCEPT !.buffer = query]
                         ELSE no_worker]
  /\ query_worker = [exists |-> TRUE, page_number |-> 0, page_size |-> 0]
  /\ signals = <<>>
  /\ table_rows = 1

NextQualify ==
  \/ \E w \in DOMAIN workers : WorkerStart(w)
  \/ \E w \in DOMAIN workers : WorkerPlain(w)

SpecQualify == InitQualify /\ [][NextQualify]_vars

(***************************************************************************)
(* The handling of a buffer on its own: buffers with empty and padded      *)
(* pieces and with every form of USE are submitted under a fixed registry  *)
(* until one of them starts a worker, which then runs and reports.         *)
(***************************************************************************)
InitBuffer ==
  /\ initial_view
  /\ \E ctx \in run_contexts :
       /\ current_database = ctx[1]
       /\ current_connection = ctx[2]
       /\ connections = <<[DatabaseConnection(c1, "mysql", <<>>)
                             EXCEPT !.is_connected = (ctx[2] = c1)]>>
       /\ attached = (IF ctx[2] = c1 THEN {c1} ELSE {})
  /\ workers = [w \in 1..MaxWorkers |-> no_worker]
  /\ query_worker = no_query_worker
  /\ signals = <<>>
  /\ table_rows = 1

NextBuffer ==
  \/ \E text \in split_buffers : ~query_worker.exists /\ execute_query(text)
  \/ \E w \in DOMAIN workers : WorkerStart(w)
  \/ \E w \in DOMAIN workers : WorkerCount(w)
  \/ \E w \in DOMAIN workers : WorkerSlice(w)
  \/ \E w \in DOMAIN workers : WorkerFallback(w)
  \/ \E w \in DOMAIN workers : WorkerPlain(w)
  \/ on_query_finished
  \/ on_query_error

SpecBuffer == InitBuffer /\ [][NextBuffer]_vars

(***************************************************************************)
(* The context switch through the worker: a QueryWorker is constructed for *)
(* a USE statement while two connections are registered, any of them       *)
(* attached; it reports the switch and the GUI resolves the connection.    *)
(***************************************************************************)
\* the USE statements the worker is given
switch_queries ==
  { <<"U","S","E"," ","s","1">>,
    <<"u","s","e"," ","s","2">>,
    <<"U","S","E"," ","c","d">>,
    <<"u","s","e"," ","s","2","\n","a","b">> }

\* the registries: c1 and c2, both of a type that attaches, in either order
switch_registries ==
  { <<DatabaseConnection(c1, "mysql", <<>>), DatabaseConnection(c2, "mysql", <<>>)>>,
    <<DatabaseConnection(c2, "mysql", <<>>), DatabaseConnection(c1, "mysql", <<>>)>> }

InitSwitch ==
  /\ initial_view
  /\ attached \in SUBSET connection_names
  /\ \E registry \in switch_registries :
       connections = [i \in DOMAIN registry |->
                        [registry[i] EXCEPT !.is_connected = (registry[i].name \in attached)]]
  /\ \E ctx \in {<<local, local>>} \cup {<<s1, c>> : c \in attached} :
       /\ current_database = ctx[1]
       /\ current_connection = ctx[2]
       /\ \E query \in switch_queries :
            workers = [w \in 1..MaxWorkers |->
                         IF w = 1
                         THEN [QueryWorker(query, ctx[1], ctx[2], default_page_size, 0)
                                 EXCEPT !.buffer = query]
                         ELSE no_worker]
  /\ query_worker = [exists |-> TRUE, page_number |-> 0, page_size |-> default_page_size]
  /\ signals = <<>>
  /\ table_rows = 1

NextSwitch ==
  \/ \E w \in DOMAIN workers : WorkerStart(w)
  \/ on_query_error

SpecSwitch == InitSwitch /\ [][NextSwitch]_vars

(***************************************************************************)
(* The results view: the page-size selector and the four navigation        *)
(* buttons, with the workers their page requests start; and the query tabs.*)
(***************************************************************************)
\* the most query tabs open at a time
MaxTabs == 2

\* the rows of the table the statements of the view read
ViewRows == 101

\* the items of page_size_combo the user selects ("100", "500", "1000", "2000", "5000")
page_size_items == {100, 1000}

\* load_page asking again for the page that is displayed
ResultsTableWidget_load_page_displayed_page(widget, page_number) ==
  IF widget.current_query /= <<>>
  THEN execute_paginated_query(widget.current_query, widget.current_page, widget.page_size,
                               current_database, widget.current_query)
  ELSE UNCHANGED <<workers, query_worker>>

\* load_page(page_number) of a widget: execute_paginated_query with the stored
\* query and the widget's page size
ResultsTableWidget_load_page(widget, page_number) ==
  IF widget.current_query /= <<>>
  THEN execute_paginated_query(widget.current_query, page_number, widget.page_size,
                               current_database, widget.current_query)
  ELSE UNCHANGED <<workers, query_worker>>

\* on_page_size_changed reloading whenever a query is stored, counted or not
on_page_size_changed_whenever_stored(new_size) ==
  /\ new_size /= single_results_table.page_size
  /\ LET resized == [single_results_table EXCEPT !.page_size = new_size]
     IN  IF resized.current_query /= <<>>
         THEN /\ single_results_table' = [resized EXCEPT !.current_page = 0]
              /\ ResultsTableWidget_load_page(resized, 0)
         ELSE /\ single_results_table' = resized
              /\ UNCHANGED <<workers, query_worker>>
  /\ UNCHANGED <<current_database, current_connection, connections, attached, signals,
                 table_rows, query_tabs, query_results_tables>>

\* on_page_size_changed(new_size_text), for an item other than the selected one
on_page_size_changed(new_size) ==
  /\ new_size /= single_results_table.page_size
  /\ LET resized == [single_results_table EXCEPT !.page_size = new_size]
     IN  IF resized.current_query /= <<>> /\ resized.total_count > 0
         THEN /\ single_results_table' = [resized EXCEPT !.current_page = 0]
              /\ ResultsTableWidget_load_page(resized, 0)
         ELSE /\ single_results_table' = resized
              /\ UNCHANGED <<workers, query_worker>>
  /\ UNCHANGED <<current_database, current_connection, connections, attached, signals,
                 table_rows, query_tabs, query_results_tables>>

\* go_to_first_page, by the First button
go_to_first_page ==
  /\ single_results_table.first_btn
  /\ ResultsTableWidget_load_page(single_results_table, 0)
  /\ UNCHANGED <<current_database, current_connection, connections, attached, signals,
                 table_rows, view_vars>>

\* go_to_previous_page, by the Previous button
go_to_previous_page ==
  /\ single_results_table.prev_btn
  /\ IF single_results_table.current_page > 0
     THEN ResultsTableWidget_load_page(single_results_table,
                                       single_results_table.current_page - 1)
     ELSE UNCHANGED <<workers, query_worker>>
  /\ UNCHANGED <<current_database, current_connection, connections, attached, signals,
                 table_rows, view_vars>>

\* go_to_next_page, by the Next button
go_to_next_page ==
  /\ single_results_table.next_btn
  /\ IF single_results_table.current_page < max_page(single_results_table)
     THEN ResultsTableWidget_load_page(single_results_table,
                                       single_results_table.current_page + 1)
     ELSE UNCHANGED <<workers, query_worker>>
  /\ UNCHANGED <<current_database, current_connection, connections, attached, signals,
                 table_rows, view_vars>>

\* go_to_last_page, by the Last button
go_to_last_page ==
  /\ single_results_table.last_btn
  /\ ResultsTableWidget_load_page(single_results_table, max_page(single_results_table))
  /\ UNCHANGED <<current_database, current_connection, connections, attached, signals,
                 table_rows, view_vars>>

\* the user selects another query tab: on_query_tab_changed(index)
on_query_tab_changed(index) ==
  /\ index \in DOMAIN query_results_tables
  /\ index /= query_tabs
  /\ query_tabs' = index
  /\ LET results_data == query_results_tables[index]
     IN  single_results_table' =
           IF results_data.data /= <<>> \/ results_data.columns /= <<>>
           THEN display_results(single_results_table, results_data)
           ELSE clear_results(single_results_table)
  /\ UNCHANGED <<current_database, current_connection, connections, attached, workers,
                 query_worker, signals, table_rows, query_results_tables>>

\* add_new_query_tab: the new tab becomes the current one and has no results
add_new_query_tab ==
  /\ Cardinality(DOMAIN query_results_tables) < MaxTabs
  /\ LET tab_index == Cardinality(DOMAIN query_results_tables)
     IN  /\ query_results_tables' =
              [t \in 0..tab_index |->
                 IF t = tab_index THEN empty_results ELSE query_results_tables[t]]
         /\ query_tabs' = tab_index
  /\ single_results_table' = clear_results(single_results_table)
  /\ UNCHANGED <<current_database, current_connection, connections, attached, workers,
                 query_worker, signals, table_rows>>

InitView ==
  /\ initial_view
  /\ current_database = s1
  /\ current_connection = c1
  /\ connections = <<[DatabaseConnection(c1, "mysql", <<>>) EXCEPT !.is_connected = TRUE]>>
  /\ attached = {c1}
  /\ workers = [w \in 1..MaxWorkers |-> no_worker]
  /\ query_worker = no_query_worker
  /\ signals = <<>>
  /\ table_rows = ViewRows

NextView ==
  \/ \E text \in view_buffers : execute_query(text)
  \/ \E new_size \in page_size_items : on_page_size_changed(new_size)
  \/ go_to_first_page
  \/ go_to_previous_page
  \/ go_to_next_page
  \/ go_to_last_page
  \/ \E w \in DOMAIN workers : WorkerStart(w)
  \/ \E w \in DOMAIN workers : WorkerCount(w)
  \/ \E w \in DOMAIN workers : WorkerSlice(w)
  \/ \E w \in DOMAIN workers : WorkerFallback(w)
  \/ \E w \in DOMAIN workers : WorkerPlain(w)
  \/ on_query_finished
  \/ on_query_error

SpecView == InitView /\ [][NextView]_vars

(***************************************************************************)
(* The query tabs: tabs are added and selected while the statements        *)
(* submitted from them run.                                                *)
(***************************************************************************)
InitTabs ==
  /\ initial_view
  /\ current_database = s1
  /\ current_connection = c1
  /\ connections = <<[DatabaseConnection(c1, "mysql", <<>>) EXCEPT !.is_connected = TRUE]>>
  /\ attached = {c1}
  /\ workers = [w \in 1..MaxWorkers |-> no_worker]
  /\ query_worker = no_query_worker
  /\ signals = <<>>
  /\ table_rows = 1

NextTabs ==
  \/ \E text \in view_buffers : execute_query(text)
  \/ \E index \in 0..(MaxTabs - 1) : on_query_tab_changed(index)
  \/ add_new_query_tab
  \/ \E w \in DOMAIN workers : WorkerStart(w)
  \/ \E w \in DOMAIN workers : WorkerCount(w)
  \/ \E w \in DOMAIN workers : WorkerSlice(w)
  \/ \E w \in DOMAIN workers : WorkerFallback(w)
  \/ \E w \in DOMAIN workers : WorkerPlain(w)
  \/ on_query_finished
  \/ on_query_error

SpecTabs == InitTabs /\ [][NextTabs]_vars

(***************************************************************************)
(* The worker threads: nothing in execute_paginated_query waits for the    *)
(* previous QueryWorker, so up to MaxThreads of them are alive while       *)
(* statements are submitted and a page size is selected.                   *)
(***************************************************************************)
\* the most worker threads alive at a time
MaxThreads == 2

InitThreads ==
  /\ initial_view
  /\ current_database = s1
  /\ current_connection = c1
  /\ connections = <<[DatabaseConnection(c1, "mysql", <<>>) EXCEPT !.is_connected = TRUE]>>
  /\ attached = {c1}
  /\ workers = [w \in 1..MaxThreads |-> no_worker]
  /\ query_worker = no_query_worker
  /\ signals = <<>>
  /\ table_rows = 1

NextThreads ==
  \/ \E text \in view_buffers : execute_query(text)
  \/ \E new_size \in page_size_items : on_page_size_changed(new_size)
  \/ \E w \in DOMAIN workers : WorkerStart(w)
  \/ \E w \in DOMAIN workers : WorkerCount(w)
  \/ \E w \in DOMAIN workers : WorkerSlice(w)
  \/ \E w \in DOMAIN workers : WorkerFallback(w)
  \/ \E w \in DOMAIN workers : WorkerPlain(w)
  \/ on_query_finished
  \/ on_query_error

SpecThreads == InitThreads /\ [][NextThreads]_vars

(***************************************************************************)
(* A page before the first: a QueryWorker is constructed for page -1, as   *)
(* its constructor allows, and runs.  What the engine does with a negative *)
(* OFFSET is the engine's business: the call returns rows or raises.       *)
(***************************************************************************)
InitPage ==
  /\ initial_view
  /\ \E ctx \in run_contexts :
       /\ current_database = ctx[1]
       /\ current_connection = ctx[2]
       /\ connections = <<[DatabaseConnection(c1, "mysql", <<>>)
                             EXCEPT !.is_connected = (ctx[2] = c1)]>>
       /\ attached = (IF ctx[2] = c1 THEN {c1} ELSE {})
       /\ \E query \in run_queries, page_size \in 0..MaxPageSize :
            /\ workers = [w \in 1..MaxWorkers |->
                            IF w = 1
                            THEN [QueryWorker(query, ctx[1], ctx[2], page_size, -1)
                                    EXCEPT !.buffer = query]
                            ELSE no_worker]
            /\ query_worker = [exists |-> TRUE, page_number |-> -1, page_size |-> page_size]
  /\ signals = <<>>
  /\ table_rows \in 0..MaxRows

NextPage ==
  \/ \E w \in DOMAIN workers : WorkerStart(w)
  \/ \E w \in DOMAIN workers : WorkerCount(w)
  \/ \E w \in DOMAIN workers : WorkerSlice(w)
  \/ \E w \in DOMAIN workers : WorkerFallback(w)
  \/ \E w \in DOMAIN workers : WorkerPlain(w)

SpecPage == InitPage /\ [][NextPage]_vars

(***************************************************************************)
(* Properties.                                                             *)
(***************************************************************************)
\* a statement that is a context switch by its text: after trimming, the keyword
\* USE in any case, followed by a whitespace character
is_pseudo_statement(stmt) ==
  LET t == upper(strip(stmt))
  IN  /\ Len(t) >= 4
      /\ SubSeq(t, 1, 3) = <<"U","S","E">>
      /\ t[4] \in Whitespace

\* the pseudo-statements of a buffer, in the order they are written
pseudo_statements(text) == SelectSeq(statements_table[text], is_pseudo_statement)

\* the other statements of a buffer
other_statements(text) ==
  SelectSeq(statements_table[text], LAMBDA stmt : ~is_pseudo_statement(stmt))

\* C1: no SQL string handed to the engine's execute contains a statement whose
\* trimmed, case-insensitive prefix is USE followed by a whitespace character
\* (space, tab, newline or carriage return alike).
C1_NoUseReachesEngine ==
  \A w \in DOMAIN workers : \A k \in DOMAIN workers[w].executed :
    LET pieces == split(workers[w].executed[k].sql, ";")
    IN  \A i \in DOMAIN pieces : ~is_pseudo_statement(pieces[i])

\* C2: submitting a buffer with one or more USE statements and at least one
\* other statement leaves current_database equal to the target of the last USE,
\* and hands the other statements, all of them, to a worker that holds that
\* updated context.
C2_LastUseSetsSchema ==
  [][\A text \in buffers :
       (/\ execute_query(text)
        /\ pseudo_statements(text) /= <<>>
        /\ other_statements(text) /= <<>>)
       => LET uses   == pseudo_statements(text)
              target == use_db_name(uses[Len(uses)])
          IN  /\ current_database' = target
              /\ \E w \in DOMAIN workers :
                   /\ workers'[w] /= workers[w]
                   /\ workers'[w].pc = "start"
                   /\ workers'[w].query = join(<<";", " ">>, other_statements(text))
                   /\ workers'[w].current_database = target
                   /\ workers'[w].current_connection = current_connection']_vars

\* the connection a schema name is resolved to: an attached connection that
\* exposes it, 'local' when none does
derived_from(connection, database) ==
  IF \E c \in attached : \E k \in DOMAIN schemata(c) : schemata(c)[k] = database
  THEN /\ connection \in attached
       /\ \E k \in DOMAIN schemata(connection) : schemata(connection)[k] = database
  ELSE connection = local

\* C3: after every processed USE statement current_connection is re-derived from
\* the target name: an attached connection that exposes a schema of that name,
\* 'local' when none does, whatever it was before.
C3_UseRederivesConnection ==
  [][\A text \in buffers :
       (/\ execute_query(text)
        /\ \E i \in DOMAIN statements_table[text] :
             is_use_statement(statements_table[text][i]))
       => derived_from(current_connection', current_database')]_vars

\* C4: in every reachable state current_connection is 'local' or the name of a
\* connection that is attached to the engine.
C4_ConnectionAttached ==
  current_connection = local \/ current_connection \in attached

\* C5: when the engine rejects a query, whatever its message, current_database
\* and current_connection are the same after the failure is reported as before.
C5_EngineErrorKeepsContext ==
  [][(on_query_error /\ Head(signals).from_engine)
       => UNCHANGED <<current_database, current_connection>>]_vars

\* the smaller and the larger of two numbers
Min(a, b) == IF a < b THEN a ELSE b

Max(a, b) == IF a > b THEN a ELSE b

\* C6: every successful result reported with total_count >= 0 has exactly
\* min(page_size, max(0, total_count - page_number * page_size)) rows, for any
\* statement kind, page number and page size.
C6_RowsMatchTotalCount ==
  \A k \in DOMAIN signals :
    (signals[k].kind = "finished" /\ signals[k].total_count >= 0)
    => Len(signals[k].result)
         = Min(signals[k].page_size,
               Max(0, signals[k].total_count
                        - signals[k].page_number * signals[k].page_size))

\* the worker of the run is a read query with a positive page size
read_run(w) ==
  /\ workers[w].pc /= "none"
  /\ is_select(strip(workers[w].query))
  /\ ~startswith(upper(strip(workers[w].query)), USE_SP)
  /\ workers[w].page_size > 0

\* the unpaginated result of the worker's query
unpaginated_rows(w) == engine_rows(strip(workers[w].query), table_rows)

\* the rows of the first k pages delivered, in order
RECURSIVE pages_concatenated(_)
pages_concatenated(k) ==
  IF k = 0 THEN <<>> ELSE pages_concatenated(k - 1) \o signals[k].result

count_failed(w) ==
  /\ read_run(w)
  /\ workers[w].executed /= <<>>
  /\ workers[w].executed[1].sql = count_query(workers[w].processed_query)
  /\ ~workers[w].executed[1].ok

\* the slice query is among the calls of worker w
slice_executed(w) ==
  \E k \in DOMAIN workers[w].executed :
    workers[w].executed[k].sql
      = paginated_query(workers[w].processed_query, workers[w].page_size,
                        workers[w].page_number)

\* C8, as stated: when the count query of a read query with a positive page size
\* fails, the run executes the unpaginated query, never the slice query, and
\* reports a success with total_count = -1 and the full rows, not an error.
C8_CountFailureFallsBack ==
  \A w \in DOMAIN workers :
    count_failed(w)
    => /\ ~slice_executed(w)
       /\ workers[w].pc = "done"
          => /\ Len(workers[w].executed) = 2
             /\ workers[w].executed[2].sql = workers[w].processed_query
             /\ signals[Len(signals)].kind = "finished"
             /\ signals[Len(signals)].total_count = -1
             /\ signals[Len(signals)].result = unpaginated_rows(w)

\* C8, amended: the same when the unpaginated query succeeds; when it fails too,
\* the run reports that error.
C8_CountFailureFallsBackOrFails ==
  \A w \in DOMAIN workers :
    count_failed(w)
    => /\ ~slice_executed(w)
       /\ workers[w].pc = "done"
          => /\ Len(workers[w].executed) = 2
             /\ workers[w].executed[2].sql = workers[w].processed_query
             /\ IF workers[w].executed[2].ok
                THEN /\ signals[Len(signals)].kind = "finished"
                     /\ signals[Len(signals)].total_count = -1
                     /\ signals[Len(signals)].result = unpaginated_rows(w)
                ELSE /\ signals[Len(signals)].kind = "error"
                     /\ signals[Len(signals)].from_engine

\* the count failed on the second page of three rows, and all three were delivered
C8_Witness ==
  /\ count_failed(1)
  /\ workers[1].pc = "done"
  /\ workers[1].page_number = 1
  /\ workers[1].executed[2].ok
  /\ signals[Len(signals)].total_count = -1
  /\ signals[Len(signals)].result = <<1, 2, 3>>

\* C9: for a read query with a positive page size the slice query is executed
\* only after the count query, and only after it succeeded; the total_count
\* reported with the rows of the slice is the value the count returned.
C9_CountBeforeSlice ==
  \A w \in DOMAIN workers :
    (read_run(w) /\ slice_executed(w))
    => /\ Len(workers[w].executed) = 2
       /\ workers[w].executed[1].sql = count_query(workers[w].processed_query)
       /\ workers[w].executed[1].ok
       /\ workers[w].executed[2].sql
            = paginated_query(workers[w].processed_query, workers[w].page_size,
                              workers[w].page_number)
       /\ workers[w].executed[2].ok
          => /\ signals[Len(signals)].kind = "finished"
             /\ signals[Len(signals)].total_count
                  = engine_count(workers[w].executed[1].sql, table_rows)
             /\ signals[Len(signals)].result
                  = engine_rows(workers[w].executed[2].sql, table_rows)

\* the second page of two of a query with a LIMIT of its own: counted, then sliced
C9_Witness ==
  /\ read_run(1)
  /\ slice_executed(1)
  /\ workers[1].pc = "done"
  /\ workers[1].page_number = 1
  /\ workers[1].executed[2].ok
  /\ contains(workers[1].query, kw_LIMIT)
  /\ signals[Len(signals)].total_count = 2
  /\ signals[Len(signals)].result = <<2>>

\* the identifier that starts at position i of q: the longest run of letters,
\* digits, '_' and '.'
reference_at(q, i) == SubSeq(q, i, run_end(q, i, IdentChar))

\* the positions of q where a table reference starts: an identifier that follows
\* FROM, JOIN, INTO or UPDATE (a whole word, in any case) and whitespace
reference_starts(q) ==
  { i \in DOMAIN q :
      /\ q[i] \in IdentStart
      /\ \E k \in DOMAIN patterns : \E j \in 1..(i - 1) :
           /\ j + Len(patterns[k]) < i
           /\ upper(SubSeq(q, j, j + Len(patterns[k]) - 1)) = patterns[k]
           /\ (j = 1 \/ q[j - 1] \notin WordChar)
           /\ \A x \in (j + Len(patterns[k]))..(i - 1) : q[x] \in Whitespace }

\* the table references of q, in the order they are written
RECURSIVE references_from(_, _)
references_from(q, starts) ==
  IF starts = {} THEN <<>>
  ELSE <<reference_at(q, SetMin(starts))>>
         \o references_from(q, starts \ {SetMin(starts)})

references(q) == references_from(q, reference_starts(q))

\* C10: with a connection C and a schema S that are not the default, every
\* dot-free identifier after FROM, JOIN, INTO or UPDATE is rewritten to
\* C.S.name, whatever the length of the name, one character included.
C10_BareNamesQualified ==
  \A w \in DOMAIN workers :
    (/\ workers[w].pc \notin {"none", "start"}
     /\ workers[w].processed_query /= <<>>
     /\ workers[w].current_connection /= local
     /\ workers[w].current_database /= local)
    => LET before == references(strip(workers[w].query))
           after  == references(workers[w].processed_query)
       IN  /\ Len(after) = Len(before)
           /\ \A i \in DOMAIN before :
                count_char(before[i], ".") = 0
                => after[i] = workers[w].current_connection \o <<".">>
                                \o workers[w].current_database \o <<".">> \o before[i]

\* worker w has rewritten its statement
qualified(w) ==
  /\ workers[w].pc \notin {"none", "start"}
  /\ workers[w].processed_query /= <<>>

is_local_reference(ref) ==
  count_char(ref, ".") = 1 /\ startswith(ref, local \o <<".">>)

\* C12: under every context that is not the default, a statement whose table
\* references are all of the form local.X is returned unchanged, character for
\* character, whatever the case of the keyword and the whitespace after it.
C12_LocalReferencesUntouched ==
  \A w \in DOMAIN workers :
    (/\ qualified(w)
     /\ (workers[w].current_database /= local \/ workers[w].current_connection /= local)
     /\ references(strip(workers[w].query)) /= <<>>
     /\ \A i \in DOMAIN references(strip(workers[w].query)) :
          is_local_reference(references(strip(workers[w].query))[i]))
    => workers[w].processed_query = strip(workers[w].query)

\* the rule for references with dots under connection C: A.B becomes C.A.B when
\* A is neither 'local' nor C, stays when A is C, and two dots stay
dotted_rule(before, after, C) ==
  /\ Len(after) = Len(before)
  /\ \A i \in DOMAIN before :
       /\ (count_char(before[i], ".") = 1
             /\ split(before[i], ".")[1] \notin {local, C})
          => after[i] = C \o <<".">> \o before[i]
       /\ (count_char(before[i], ".") = 1 /\ split(before[i], ".")[1] = C)
          => after[i] = before[i]
       /\ count_char(before[i], ".") = 2 => after[i] = before[i]

C14_DefaultContextKeepsReferences ==
  \A w \in DOMAIN workers :
    (/\ qualified(w)
     /\ (workers[w].current_connection = local \/ workers[w].current_database = local))
    => /\ references(workers[w].processed_query) = references(strip(workers[w].query))
       /\ \A k \in DOMAIN workers[w].executed :
            references(workers[w].executed[k].sql) = references(strip(workers[w].query))

\* database s1 on the local connection: the statement was scanned (its keyword
\* is now upper case) and executed with its two references as written
C14_Witness ==
  /\ qualified(1)
  /\ workers[1].current_connection = local
  /\ workers[1].current_database = s1
  /\ workers[1].processed_query /= strip(workers[1].query)
  /\ workers[1].executed /= <<>>
  /\ references(workers[1].executed[1].sql) = << s1 \o <<".","a","b">>, <<"c","d">> >>

\* the target name of a USE statement: the text after the keyword, cut at the
\* first ';', newline or carriage return, and trimmed
target_name(stmt) ==
  LET rest  == SubSeq(strip(stmt), 4, Len(strip(stmt)))
      stops == {i \in DOMAIN rest : rest[i] \in {";", "\n", "\r"}}
      cut   == IF stops = {} THEN rest ELSE SubSeq(rest, 1, SetMin(stops) - 1)
  IN  strip(cut)

\* C15: submitting a buffer that consists only of USE statements makes no
\* engine call and reports no failure: no worker is started and no signal is
\* emitted, current_database becomes the target of the last USE, and the
\* pipeline is idle as before.
C15_UseOnlyBuffer ==
  [][\A text \in split_buffers :
       (/\ execute_query(text)
        /\ pseudo_statements(text) /= <<>>
        /\ other_statements(text) = <<>>)
       => /\ workers' = workers
          /\ signals' = signals
          /\ current_database'
               = target_name(pseudo_statements(text)[Len(pseudo_statements(text))])]_vars

\* the positions of the ';' of a text
separators(text) == {i \in DOMAIN text : text[i] = ";"}

\* the start of the k-th piece of a text: after the (k-1)-th ';'
piece_start(text, k) ==
  IF k = 1 THEN 1
  ELSE 1 + (CHOOSE i \in separators(text) :
              Cardinality({j \in separators(text) : j <= i}) = k - 1)

\* the end of the k-th piece of a text: before the k-th ';', or the end of the text
piece_end(text, k) ==
  IF k > Cardinality(separators(text)) THEN Len(text)
  ELSE (CHOOSE i \in separators(text) :
          Cardinality({j \in separators(text) : j <= i}) = k) - 1

\* the pieces between the ';' of a text, trimmed, those that are empty left out,
\* in the order they are written
trimmed_pieces(text) ==
  SelectSeq([k \in 1..(Cardinality(separators(text)) + 1) |->
               strip(SubSeq(text, piece_start(text, k), piece_end(text, k)))],
            LAMBDA piece : piece /= <<>>)

\* C16: the statements of a buffer are the non-empty pieces between its ';',
\* trimmed, in their order, none dropped, duplicated or merged: the pieces that
\* are not USE statements are what the worker is given, joined in that order,
\* and the last USE piece is the one that sets current_database.
C16_SplitKeepsPieces ==
  [][\A text \in split_buffers :
       execute_query(text)
       => LET pieces    == trimmed_pieces(text)
              uses      == SelectSeq(pieces, is_use_statement)
              remaining == SelectSeq(pieces, LAMBDA piece : ~is_use_statement(piece))
          IN  /\ pieces /= <<>>
              /\ uses /= <<>>
                 => current_database' = strip(from_index(uses[Len(uses)], 4))
              /\ uses = <<>> => current_database' = current_database
              /\ remaining = <<>> => workers' = workers
              /\ remaining /= <<>>
                 => \E w \in DOMAIN workers :
                      /\ workers[w].pc = "none"
                      /\ workers'[w].pc = "start"
                      /\ workers'[w].query = join(<<";", " ">>, remaining)]_vars

\* a padded piece, an empty piece and a statement: the worker has the two statements
C16_Witness ==
  \E w \in DOMAIN workers :
    /\ workers[w].pc = "start"
    /\ workers[w].buffer
         = <<" ","a","b","\n">> \o <<";", ";">> \o <<"S","E","L","E","C","T"," ","1">>
    /\ workers[w].query = <<"a","b",";"," ","S","E","L","E","C","T"," ","1">>

\* C17: the name a USE statement stores is the text after the keyword cut at the
\* first ';', newline or carriage return and trimmed: a USE whose text goes on
\* on a following line stores only what precedes the line break.
C17_UseTargetTruncated ==
  [][\A text \in split_buffers :
       (/\ execute_query(text)
        /\ \E i \in DOMAIN statements_table[text] :
             is_use_statement(statements_table[text][i]))
       => LET uses == SelectSeq(statements_table[text], is_use_statement)
          IN  current_database' = target_name(uses[Len(uses)])]_vars

\* the schemas of the local database
local_schemata == <<main_db, s1>>

\* connection c exposes a schema of that name
exposes(c, name) == \E k \in DOMAIN schemata(c) : schemata(c)[k] = name

\* the owner of a name: 'local' when the local database has it, otherwise the
\* first attached connection in the order of the registry that exposes it,
\* otherwise 'local'
owner_of(name) ==
  LET owners == {i \in DOMAIN connections :
                   connections[i].name \in attached /\ exposes(connections[i].name, name)}
  IN  IF \E k \in DOMAIN local_schemata : local_schemata[k] = name THEN local
      ELSE IF owners = {} THEN local
      ELSE connections[SetMin(owners)].name

\* C18: when the owner of a USE target is resolved, the local database is
\* probed first and the first match wins: a name that exists locally resolves
\* to 'local' even if an attached connection exposes it, and among attached
\* connections the first in registry order that exposes the name is chosen.
C18_LocalProbedFirst ==
  [][(/\ on_query_error
      /\ ~Head(signals).from_engine
      /\ switched_name(Head(signals).message) /= <<>>)
       => current_connection' = owner_of(current_database')]_vars

\* the statement the slice query is built from: the processed text without
\* trailing whitespace and ';'
sliced_statement(w) == clean_query(workers[w].processed_query)

\* LIMIT n OFFSET m, as text
limit_offset(n, m) ==
  <<" ","L","I","M","I","T"," ">> \o str_int(n) \o <<" ","O","F","F","S","E","T"," ">> \o str_int(m)

\* C19: for a read query with a positive page size the slice query is the whole
\* statement wrapped as a subquery under an outer LIMIT page_size OFFSET
\* page_number*page_size when the statement contains LIMIT, and the statement
\* with LIMIT page_size OFFSET page_number*page_size appended otherwise; either
\* way the statement, its own LIMIT included, is part of the executed text.
C19_SliceQueryShape ==
  \A w \in DOMAIN workers :
    (/\ read_run(w)
     /\ Len(workers[w].executed) = 2
     /\ workers[w].executed[1].ok)
    => LET sql    == workers[w].executed[2].sql
           stmt   == sliced_statement(w)
           clause == limit_offset(workers[w].page_size,
                                  workers[w].page_number * workers[w].page_size)
       IN  /\ contains(sql, stmt)
           /\ IF contains(upper(stmt), kw_LIMIT)
              THEN sql = <<"S","E","L","E","C","T"," ","*"," ","F","R","O","M"," ","(">> \o stmt \o <<")"," ","A","S"," ","p","a","g","i","n","a","t","e","d","_","s","u","b","q","u","e","r","y">> \o clause
              ELSE sql = stmt \o clause

\* page 1 of a statement with a LIMIT of its own, two rows a page
C19_Witness ==
  /\ read_run(1)
  /\ workers[1].pc = "done"
  /\ Len(workers[1].executed) = 2
  /\ workers[1].executed[2].sql
       = <<"S","E","L","E","C","T"," ","*"," ","F","R","O","M"," ","(","S","E","L","E","C","T"," ","*"," ","F","R","O","M"," ","c","1",".","s","1",".","a","b"," ","L","I","M","I","T"," ","2",")"," ","A","S"," ","p","a","g","i","n","a","t","e","d","_","s","u","b","q","u","e","r","y"," ","L","I","M","I","T"," ","2"," ","O","F","F","S","E","T"," ","2">>

\* C20: a run makes exactly one engine call when the statement is not a read
\* query or the page size is not positive (the statement itself, no count), and
\* exactly two otherwise (the count, then the slice or, the count having failed,
\* the statement itself); no call is made after any other failure.
C20_CallsPerRun ==
  \A w \in DOMAIN workers :
    (workers[w].pc \notin {"none", "start"} /\ workers[w].processed_query /= <<>>)
    => LET calls == workers[w].executed
       IN  /\ \A k \in DOMAIN calls : ~calls[k].ok => (k = Len(calls) \/ (k = 1 /\ read_run(w)))
           /\ IF read_run(w)
              THEN /\ Len(calls) <= 2
                   /\ calls /= <<>> => calls[1].sql = count_query(workers[w].processed_query)
                   /\ Len(calls) = 2
                      => calls[2].sql
                           = IF calls[1].ok
                             THEN paginated_query(workers[w].processed_query,
                                                  workers[w].page_size, workers[w].page_number)
                             ELSE workers[w].processed_query
                   /\ workers[w].pc = "done" => Len(calls) = 2
              ELSE /\ Len(calls) <= 1
                   /\ calls /= <<>> => calls[1].sql = workers[w].processed_query
                   /\ workers[w].pc = "done" => Len(calls) = 1

\* a read query whose count failed and whose unpaginated statement failed too:
\* two calls, and the run is over
C20_Witness ==
  /\ read_run(1)
  /\ workers[1].pc = "done"
  /\ Len(workers[1].executed) = 2
  /\ ~workers[1].executed[1].ok
  /\ ~workers[1].executed[2].ok
  /\ signals[Len(signals)].kind = "error"

running_workers == {w \in DOMAIN workers : workers[w].pc \notin {"none", "done"}}

\* C22: at most one worker is running at any time, whatever is submitted or
\* requested while a worker has not delivered its result.
C22_OneRunInFlight == Cardinality(running_workers) <= 1

\* C23: a run is qualified against the context of its dispatch.  The worker is
\* constructed with the current_database and current_connection of that moment,
\* keeps them until it qualifies, qualifies its statement against them, and the
\* qualified text does not change afterwards, whatever USE, connect or
\* disconnect happens in between.
C23_QualifiedAgainstDispatchContext ==
  [][\A w \in DOMAIN workers :
       /\ (workers[w].pc = "none" /\ workers'[w].pc = "start")
          => /\ workers'[w].current_database = current_database'
             /\ workers'[w].current_connection = current_connection'
       /\ (workers[w].pc = "start" /\ workers'[w].pc = "start")
          => /\ workers'[w].current_database = workers[w].current_database
             /\ workers'[w].current_connection = workers[w].current_connection
             /\ workers'[w].query = workers[w].query
       /\ (workers[w].pc = "start" /\ workers'[w].pc \notin {"start", "none"})
          => LET p == preprocess_query(workers[w].query, workers[w].current_database,
                                       workers[w].current_connection)
             IN  ~p.raised => workers'[w].processed_query = p.query
       /\ (workers[w].pc \notin {"none", "start"} /\ workers'[w].pc /= "none")
          => workers'[w].processed_query = workers[w].processed_query]_vars

\* a statement dispatched under (s1, c1) has been qualified with c1.s1 while the
\* session has moved on to another schema
C23_Witness ==
  /\ workers[1].pc \in {"count", "slice", "fallback"}
  /\ workers[1].current_database = s1
  /\ workers[1].current_connection = c1
  /\ workers[1].processed_query = <<"S","E","L","E","C","T"," ","*"," ","F","R","O","M"," ","c","1",".","s","1",".","a","b">>
  /\ current_database = s2

\* a step of one of the navigation handlers of the results view
navigation ==
  \/ go_to_first_page
  \/ go_to_previous_page
  \/ go_to_next_page
  \/ go_to_last_page
  \/ \E new_size \in page_size_items : on_page_size_changed(new_size)

\* C24: while the displayed result has total_count = -1, no navigation (first,
\* previous, next, last, page-size selection) starts a worker.
C24_NoPageRequestWhenUnpaginated ==
  [][(single_results_table.total_count = -1 /\ navigation)
       => UNCHANGED <<workers, query_worker>>]_vars

\* an uncounted result is displayed, a page size has been selected, and nothing
\* runs
C24_Witness ==
  /\ single_results_table.total_count = -1
  /\ single_results_table.data /= <<>>
  /\ single_results_table.page_size /= widget_page_size
  /\ \A w \in DOMAIN workers : workers[w].pc = "none"
  /\ signals = <<>>

\* C25: disconnecting the connection that is current sets current_connection
\* and current_database to 'local' in the same step, so before any later
\* dispatch; disconnecting another connection changes neither.
C25_DisconnectResetsContext ==
  [][\A name \in connection_names :
       disconnect_database(name)
       => IF current_connection = name
          THEN current_connection' = local /\ current_database' = local
          ELSE UNCHANGED <<current_database, current_connection>>]_vars

\* a run dispatched under c1 is still in flight, c1 has been disconnected since
\* and the session is back to local
C25_Witness ==
  /\ workers[1].pc /= "none"
  /\ workers[1].current_connection = c1
  /\ workers[1].current_database /= local
  /\ registered(manager, c1)
  /\ ~entry(manager, c1).is_connected
  /\ current_connection = local
  /\ current_database = local

\* C26: a connect request that succeeds marks the connection connected and
\* makes it the current connection; one that fails (a type that is not
\* attached, an ATTACH that raises) changes neither the context nor the
\* registry, and a name that is not registered is refused with nothing changed.
C26_ConnectOutcome ==
  [][\A name \in connection_names :
       /\ connect_database(name)
          => IF connections'[position(manager, name)].is_connected
             THEN /\ current_connection' = name
                  /\ name \in attached'
             ELSE UNCHANGED <<current_database, current_connection, connections, attached>>
       /\ ~registered(manager, name)
          => \A attach_ok \in BOOLEAN :
               manager_connect_database(manager, name, attach_ok)
                 = [manager |-> manager, returned |-> FALSE]]_vars

\* c1 has been connected and is the current connection, beside a connection of
\* a type that cannot be attached
C26_Witness ==
  /\ registered(manager, c1)
  /\ entry(manager, c1).is_connected
  /\ current_connection = c1
  /\ registered(manager, c2)
  /\ entry(manager, c2).db_type = "postgresql"
  /\ ~entry(manager, c2).is_connected

\* the signals worker w has emitted for its run of page p
signals_of_run(w, p) ==
  SelectSeq(signals, LAMBDA sig : sig.worker = w /\ sig.page_number = p)

\* C27: a run emits exactly one signal, finished or error, and emits it when it
\* ends: the runs of the earlier pages and a run that is over have one signal
\* each, a run that is not over has none.
C27_OneTerminalSignal ==
  \A w \in DOMAIN workers :
    workers[w].pc /= "none"
    => /\ \A p \in 0..(workers[w].page_number - 1) : Len(signals_of_run(w, p)) = 1
       /\ Len(signals_of_run(w, workers[w].page_number))
            = (IF workers[w].pc = "done" THEN 1 ELSE 0)
       /\ \A k \in DOMAIN signals :
            /\ signals[k].kind \in {"finished", "error"}
            /\ signals[k].worker = w => signals[k].page_number <= workers[w].page_number

\* page 0 was delivered as a result and the run of page 1 ended in an engine
\* failure: one signal for each
C27_Witness ==
  /\ workers[1].pc = "done"
  /\ workers[1].page_number = 1
  /\ Len(signals) = 2
  /\ signals[1].kind = "finished"
  /\ signals[2].kind = "error"
  /\ signals[2].from_engine

\* C28: a result is stored under the query tab it was requested from, with the
\* page number that was requested, and is displayed as such.
C28_ResultKeepsPageAndTab ==
  /\ \A t \in DOMAIN query_results_tables :
       query_results_tables[t].request.made
       => /\ query_results_tables[t].request.tab = t
          /\ query_results_tables[t].current_page
               = query_results_tables[t].request.page_number
  /\ single_results_table.request.made
     => /\ single_results_table.request.tab = query_tabs
        /\ single_results_table.current_page = single_results_table.request.page_number

\* C29: once every request has been answered, the page size of the results view
\* is the page size the displayed rows were fetched with.
C29_ViewPageSizeIsFetchedPageSize ==
  (/\ single_results_table.request.made
   /\ \A w \in DOMAIN workers : workers[w].pc = "none"
   /\ signals = <<>>)
  => single_results_table.page_size = single_results_table.request.page_size

\* a worker has just been constructed for page page_number of the statement the
\* view stores, with the view's page size and the context of this moment, and
\* with nothing of an earlier run in it
fresh_run(page_number) ==
  \E w \in DOMAIN workers :
    /\ workers[w].pc = "none"
    /\ workers'[w].pc = "start"
    /\ workers'[w].query = single_results_table.current_query
    /\ workers'[w].page_number = page_number
    /\ workers'[w].page_size = single_results_table'.page_size
    /\ workers'[w].current_database = current_database
    /\ workers'[w].current_connection = current_connection
    /\ workers'[w].processed_query = <<>>
    /\ workers'[w].executed = <<>>

\* the rows of every result waiting for delivery are those the engine returned
\* to the last call of the run that emitted it, and for a counted read run that
\* call is the slice query planned from the statement qualified in the run
rows_from_own_run ==
  \A k \in DOMAIN signals :
    signals[k].kind = "finished"
    => LET me    == workers[signals[k].worker]
           calls == me.executed
           p     == preprocess_query(me.query, me.current_database, me.current_connection)
       IN  /\ calls /= <<>>
           /\ calls[Len(calls)].ok
           /\ signals[k].result = engine_rows(calls[Len(calls)].sql, table_rows)
           /\ me.processed_query = p.query
           /\ (read_run(signals[k].worker) /\ calls[1].ok)
              => calls[Len(calls)].sql
                   = paginated_query(p.query, me.page_size, me.page_number)

\* C30: every page navigation that asks for a page starts a new run for the
\* stored statement, the page asked for and the context of that moment, and the
\* rows of a result are those of the engine calls of its own run.
C30_NavigationRerunsPipeline ==
  [][/\ (go_to_first_page /\ workers' /= workers) => fresh_run(0)
     /\ (go_to_previous_page /\ workers' /= workers)
        => fresh_run(single_results_table.current_page - 1)
     /\ (go_to_next_page /\ workers' /= workers)
        => fresh_run(single_results_table.current_page + 1)
     /\ (go_to_last_page /\ workers' /= workers)
        => fresh_run(max_page(single_results_table))
     /\ \A new_size \in page_size_items :
          (on_page_size_changed(new_size) /\ workers' /= workers) => fresh_run(0)
     /\ rows_from_own_run]_vars

\* page 0 was fetched under (s1, c1); after a USE the Next button started a run
\* that qualified the statement with c1.s2 and fetched the last row as page 1
C30_Witness ==
  /\ workers[1].pc = "done"
  /\ workers[1].page_number = 1
  /\ workers[1].page_size = 100
  /\ workers[1].processed_query = <<"S","E","L","E","C","T"," ","*"," ","F","R","O","M"," ","c","1",".","s","2",".","a","b">>
  /\ Len(signals) = 1
  /\ signals[1].kind = "finished"
  /\ signals[1].result = <<ViewRows>>
  /\ single_results_table.current_page = 0
  /\ single_results_table.request.made

====
